---- MODULE Spec2Model ----
(***************************************************************************)
(* The download pipeline of get_imgs: main (the supervisor loop), the      *)
(* Requester, the Spawner, the Getters it launches and the single Writer,  *)
(* with the four channels and the WaitGroup that connect them.             *)
(*                                                                         *)
(* Every channel of the program is unbuffered, so a send and its receive   *)
(* are one joint step of the two goroutines.  A goroutine's position is    *)
(* the statement it executes next.                                         *)
(***************************************************************************)
EXTENDS Integers, Sequences, FiniteSets

MaxN == 2          \* longest query result explored
MaxBudget == 2     \* largest --max-routines explored
MaxStem == 2       \* longest file name, less its extension, given to validFilenameMaker

maxIndices == 100

Success == "Success"
Failure == "Failure"

Getters == 1..MaxN
Budgets == (0 - 1)..MaxBudget

VARIABLES
    nres,            \* len(results) that Request() returned
    maxRoutines,     \* Spawner.maxRoutines
    rpc,             \* Requester.Main position
    rstatus,         \* what the deferred recover() of Requester.Main saw
    ri,              \* index of the range loop of Requester.Main
    pair,            \* the loop variable `pair`; &pair is what the channel carries
    tsClosed,        \* chanPair / targetStream closed
    spc,             \* Spawner.Main position
    urlPtr,          \* first word of pair.MediaUrl as read by the Spawner
    currentRoutines, \* Spawner.Main local
    launched,        \* number of `go getter.Main` executed
    wg,              \* WaitGroup counter
    gwClosed,        \* getAndWrite closed
    gpc,             \* Getter.Main position, per launched getter
    gurl,            \* Getter.url
    gres,            \* what Getter.Get returned
    gstatus,         \* what the deferred recover() of Getter.Main saw
    wpc,             \* Writer.Main position
    received,        \* number of ImgData items the Writer has taken from imgBox
    imgData,         \* Writer.Main local: the item w.Write is working on
    file,            \* Writer.Write local: the path of the file os.Create opened
    dirFaults,       \* the faults the output directory can show in this run
    disk,            \* files of the output directory: path -> data
    dropped,         \* the errors Writer.Write has returned so far
    askPath,         \* the argument of a direct call of validFilenameMaker
    answer,          \* what that call returned, once it has
    supClosed,       \* opStatus / supervisor closed
    log,             \* OperationReply records main has received, in order
    mpc,             \* main position
    crashed          \* name of the goroutine whose unrecovered panic ended the process

vars == <<nres, maxRoutines, rpc, rstatus, ri, pair, tsClosed, spc, urlPtr, currentRoutines,
          launched, wg, gwClosed, gpc, gurl, gres, gstatus, wpc, received, imgData, file,
          dirFaults, disk, dropped, askPath, answer, supClosed, log, mpc, crashed>>

reqVars == <<nres, rpc, rstatus, ri, pair, tsClosed>>
spaVars == <<maxRoutines, spc, urlPtr, currentRoutines, launched, gwClosed>>
getVars == <<gpc, gurl, gres, gstatus>>
wriVars == <<wpc, received, imgData, file, dirFaults, disk, dropped, askPath, answer>>
supVars == <<supClosed, log, mpc, crashed>>

----------------------------------------------------------------------------
(* Data *)

\* A Go string is two words: a data pointer and a length.  Descriptor k's
\* MediaUrl has pointer k and length k; a string with ptr # len is torn.
NoUrl == [ptr |-> 0, len |-> 0]

MediaUrl(k) == [ptr |-> k, len |-> k]

Reply(objType, status, errorMsg) ==
    [ObjType |-> objType, Status |-> status, ErrorMsg |-> errorMsg]

\* Strings that the program takes apart (urls, paths, file names, format
\* strings) are sequences of one-character strings, one per byte; a byte
\* that is not printable is written in caret notation ("^@" is byte 0), and
\* the grave accent, which a string here cannot hold, as "0x60".

\* strconv of one decimal digit
Digit(n) ==
    CASE n = 0 -> "0" [] n = 1 -> "1" [] n = 2 -> "2" [] n = 3 -> "3"
      [] n = 4 -> "4" [] n = 5 -> "5" [] n = 6 -> "6" [] n = 7 -> "7"
      [] n = 8 -> "8" [] n = 9 -> "9"

\* fmt's ldigits and udigits
LowerDigits ==
    <<"0", "1", "2", "3", "4", "5", "6", "7", "8", "9", "a", "b", "c", "d", "e", "f">>

UpperDigits ==
    <<"0", "1", "2", "3", "4", "5", "6", "7", "8", "9", "A", "B", "C", "D", "E", "F">>

\* the digits of n >= 0 in the base, as fmtInteger produces them
NumText[n \in Nat, base \in 2..16, upper \in BOOLEAN] ==
    LET d == (IF upper THEN UpperDigits ELSE LowerDigits)[(n % base) + 1]
    IN  IF n < base THEN <<d>> ELSE Append(NumText[n \div base, base, upper], d)

\* the decimal digits of n >= 0
Digits(n) == NumText[n, 10, FALSE]

\* the bytes 32..126
PrintableAscii ==
  <<
    " ", "!", "\"", "#", "$", "%", "&", "'", "(", ")", "*", "+", ",", "-", ".", "/",
    "0", "1", "2", "3", "4", "5", "6", "7", "8", "9", ":", ";", "<", "=", ">", "?",
    "@", "A", "B", "C", "D", "E", "F", "G", "H", "I", "J", "K", "L", "M", "N", "O",
    "P", "Q", "R", "S", "T", "U", "V", "W", "X", "Y", "Z", "[", "\\", "]", "^", "_",
    "0x60", "a", "b", "c", "d", "e", "f", "g", "h", "i", "j", "k", "l", "m", "n", "o",
    "p", "q", "r", "s", "t", "u", "v", "w", "x", "y", "z", "{", "|", "}", "~"
  >>

\* the bytes 0..31
ControlAscii ==
  <<
    "^@", "^A", "^B", "^C", "^D", "^E", "^F", "^G", "^H", "^I", "^J", "^K", "^L", "^M", "^N", "^O",
    "^P", "^Q", "^R", "^S", "^T", "^U", "^V", "^W", "^X", "^Y", "^Z", "^[", "^\\", "^]", "^^", "^_"
  >>

\* strconv.IsPrint, for a byte of ASCII
IsPrint(n) == n \in 32..126

\* the character whose code is n, for n in 0..127
Chr(n) ==
    CASE n \in 0..31 -> ControlAscii[n + 1]
      [] n \in 32..126 -> PrintableAscii[n - 31]
      [] n = 127 -> "^?"

\* n copies of c
Fill(n, c) == IF n <= 0 THEN <<>> ELSE [j \in 1..n |-> c]

\* the text of a MediaUrl whose two words are url.ptr and url.len
UrlText(url) == <<"h", "/", "u", Digit(url.ptr), Digit(url.len), ".", "p">>

\* strings.LastIndex(s, c) + 1: the position of the last c in s, 0 if none
LastIndex(s, c) ==
    LET at == {k \in 1..Len(s) : s[k] = c}
    IN  IF at = {} THEN 0 ELSE CHOOSE k \in at : \A m \in at : m <= k

\* one element of a path taken onto the elements Clean has kept so far: an
\* empty element and "." are dropped, ".." removes the element before it,
\* is dropped at the root and is kept at the start of a relative path
PushElement(kept, elem, rooted) ==
    IF elem = <<>> \/ elem = <<".">> THEN kept
    ELSE IF elem # <<".", ".">> THEN Append(kept, elem)
    ELSE IF kept # <<>> /\ kept[Len(kept)] # <<".", ".">>
         THEN SubSeq(kept, 1, Len(kept) - 1)
    ELSE IF rooted THEN kept
    ELSE Append(kept, elem)

\* the positions of the separators of a path, with the positions before
\* its first byte and after its last
Separators[path \in Seq(STRING)] ==
    {0, Len(path) + 1} \cup {k \in 1..Len(path) : path[k] = "/"}

\* the i-th of the positions, from the least
Nth[ends \in SUBSET Nat, i \in Nat] ==
    CHOOSE k \in ends : Cardinality({m \in ends : m < k}) = i - 1

\* the texts of the path between the positions, in order
Between[path \in Seq(STRING), ends \in SUBSET Nat] ==
    [i \in 1..(Cardinality(ends) - 1) |->
        SubSeq(path, Nth[ends, i] + 1, Nth[ends, i + 1] - 1)]

\* the elements of a path: the texts between its separators, in order
Elements[path \in Seq(STRING)] == Between[path, Separators[path]]

\* the elements Clean keeps of the elements of a path from the k-th on
CleanFrom[elems \in Seq(Seq(STRING)), k \in Nat, kept \in Seq(Seq(STRING)), rooted \in BOOLEAN] ==
    IF k > Len(elems) THEN kept
    ELSE CleanFrom[elems, k + 1, PushElement(kept, elems[k], rooted), rooted]

\* strings.Join(elems, "/")
JoinElements[elems \in Seq(Seq(STRING))] ==
    IF elems = <<>> THEN <<>>
    ELSE IF Len(elems) = 1 THEN elems[1]
    ELSE elems[1] \o <<"/">> \o JoinElements[Tail(elems)]

\* the path of the elements kept, below the root or below the working
\* directory
PathOf[kept \in Seq(Seq(STRING)), rooted \in BOOLEAN] ==
    IF rooted THEN <<"/">> \o JoinElements[kept]
    ELSE IF kept = <<>> THEN <<".">>
    ELSE JoinElements[kept]

\* filepath.Clean: the shortest path that names the same file
Clean(path) ==
    IF path = <<>> THEN <<".">>
    ELSE PathOf[CleanFrom[Elements[path], 1, <<>>, path[1] = "/"], path[1] = "/"]

\* filepath.Base: the last element of the path, trailing separators
\* removed first; "." for the empty path, "/" for a path of separators only
Base(path) ==
    IF path = <<>> THEN <<".">>
    ELSE LET named == {k \in 1..Len(path) : path[k] # "/"}
         IN  IF named = {} THEN <<"/">>
             ELSE LET last == CHOOSE k \in named : \A m \in named : m <= k
                      stripped == SubSeq(path, 1, last)
                  IN  SubSeq(stripped, LastIndex(stripped, "/") + 1, last)

\* filepath.Dir: all but the last element of the path, cleaned
Dir(path) == Clean(SubSeq(path, 1, LastIndex(path, "/")))

\* filepath.Ext: the suffix that begins at the last dot of the last element
Ext(path) ==
    IF LastIndex(path, ".") > LastIndex(path, "/")
    THEN SubSeq(path, LastIndex(path, "."), Len(path))
    ELSE <<>>

\* strings.TrimSuffix
TrimSuffix(s, suffix) ==
    IF /\ Len(suffix) <= Len(s)
       /\ SubSeq(s, Len(s) - Len(suffix) + 1, Len(s)) = suffix
    THEN SubSeq(s, 1, Len(s) - Len(suffix))
    ELSE s

\* filepath.Join of two elements: empty elements are ignored and the result
\* is cleaned; the join of nothing is the empty path
Join(dir, elem) ==
    IF dir = <<>> /\ elem = <<>> THEN <<>>
    ELSE IF dir = <<>> THEN Clean(elem)
    ELSE Clean(dir \o <<"/">> \o elem)

\* w.dir, the --output-dir
OutputDir == <<"t">>

ImgData(name, content) == [name |-> name, content |-> content]

\* the Writer holds no item
NoImg == ImgData(<<>>, [url |-> NoUrl, res |-> "none"])

\* fmt.Sprintf(format, args...) for operands of type int that are not
\* negative, as package fmt's doPrintf computes it.  A directive is a
\* percent sign, flags, an operand index, a width, a precision, an operand index and a
\* verb; each part but the verb may be absent.

\* fmt's fmtFlags with wid and prec, as clearflags leaves them
NoFlags ==
    [sharp |-> FALSE, zero |-> FALSE, plus |-> FALSE, minus |-> FALSE, space |-> FALSE,
     wid |-> 0, widPresent |-> FALSE, prec |-> 0, precPresent |-> FALSE]

FmtFlags ==
    [sharp : BOOLEAN, zero : BOOLEAN, plus : BOOLEAN, minus : BOOLEAN, space : BOOLEAN,
     wid : Nat, widPresent : BOOLEAN, prec : Nat, precPresent : BOOLEAN]

\* the state of doPrintf inside one call: the position k in the format, the
\* index of the next operand (from 0), the flags of the directive at hand,
\* goodArgNum, afterIndex, reordered and the text printed so far
Printers ==
    [k : Nat, argNum : Nat, f : FmtFlags, good : BOOLEAN, afterIndex : BOOLEAN,
     reordered : BOOLEAN, out : Seq(STRING)]

IsDecimal(c) == \E d \in 0..9 : Digit(d) = c

DecimalValue(c) == CHOOSE d \in 0..9 : Digit(d) = c

\* fmt's parsenum from position k up to but not including stop: a number
\* that has passed a million ends the scan at stop with no number
ParseNum[format \in Seq(STRING), k \in Nat, stop \in Nat, num \in Nat, isnum \in BOOLEAN] ==
    IF k >= stop \/ ~IsDecimal(format[k]) THEN [num |-> num, isnum |-> isnum, k |-> k]
    ELSE IF num > 1000000 THEN [num |-> 0, isnum |-> FALSE, k |-> stop]
    ELSE ParseNum[format, k + 1, stop, num * 10 + DecimalValue(format[k]), TRUE]

\* the flags that follow the percent sign; no zero padding to the right
ParseFlags[format \in Seq(STRING), k \in Nat, f \in FmtFlags] ==
    IF k > Len(format) THEN [k |-> k, f |-> f]
    ELSE IF format[k] = "#" THEN ParseFlags[format, k + 1, [f EXCEPT !.sharp = TRUE]]
    ELSE IF format[k] = "0" THEN ParseFlags[format, k + 1, [f EXCEPT !.zero = ~f.minus]]
    ELSE IF format[k] = "+" THEN ParseFlags[format, k + 1, [f EXCEPT !.plus = TRUE]]
    ELSE IF format[k] = "-"
         THEN ParseFlags[format, k + 1, [f EXCEPT !.minus = TRUE, !.zero = FALSE]]
    ELSE IF format[k] = " " THEN ParseFlags[format, k + 1, [f EXCEPT !.space = TRUE]]
    ELSE [k |-> k, f |-> f]

\* fmt's parseArgNumber of the "[n]" that begins at position k: the operand
\* index from 0, the length of the bracketed text and whether it is well formed
ParseArgNumber(format, k) ==
    LET closers == {j \in (k + 1)..Len(format) : format[j] = "]"}
    IN  IF Len(format) - k + 1 < 3 \/ closers = {}
        THEN [index |-> 0, wid |-> 1, ok |-> FALSE]
        ELSE LET j == CHOOSE c \in closers : \A m \in closers : c <= m
                 n == ParseNum[format, k + 1, j, 0, FALSE]
             IN  IF ~n.isnum \/ n.k # j
                 THEN [index |-> 0, wid |-> j - k + 1, ok |-> FALSE]
                 ELSE [index |-> n.num - 1, wid |-> j - k + 1, ok |-> TRUE]

\* pp.argNumber: an explicit operand index at the position, if there is one
ArgNumber[format \in Seq(STRING), numArgs \in Nat, p \in Printers] ==
    IF p.k > Len(format) \/ format[p.k] # "["
    THEN [p EXCEPT !.afterIndex = FALSE]
    ELSE LET a == ParseArgNumber(format, p.k)
         IN  IF a.ok /\ 0 <= a.index /\ a.index < numArgs
             THEN [p EXCEPT !.argNum = a.index, !.k = p.k + a.wid,
                            !.afterIndex = TRUE, !.reordered = TRUE]
             ELSE [p EXCEPT !.k = p.k + a.wid, !.afterIndex = a.ok,
                            !.good = FALSE, !.reordered = TRUE]

BadWidth == <<"%", "!", "(", "B", "A", "D", "W", "I", "D", "T", "H", ")">>

BadPrec == <<"%", "!", "(", "B", "A", "D", "P", "R", "E", "C", ")">>

\* the width: "*" takes it from the next operand, digits give it
Width[format \in Seq(STRING), args \in Seq(Nat), p \in Printers] ==
    IF p.k <= Len(format) /\ format[p.k] = "*"
    THEN IF p.argNum < Len(args)
         THEN IF args[p.argNum + 1] > 1000000
              THEN [p EXCEPT !.k = p.k + 1, !.argNum = p.argNum + 1, !.afterIndex = FALSE,
                             !.out = p.out \o BadWidth]
              ELSE [p EXCEPT !.k = p.k + 1, !.argNum = p.argNum + 1, !.afterIndex = FALSE,
                             !.f.wid = args[p.argNum + 1], !.f.widPresent = TRUE]
         ELSE [p EXCEPT !.k = p.k + 1, !.afterIndex = FALSE, !.out = p.out \o BadWidth]
    ELSE LET w == ParseNum[format, p.k, Len(format) + 1, 0, FALSE]
         IN  [p EXCEPT !.k = w.k, !.f.wid = w.num, !.f.widPresent = w.isnum,
                       !.good = p.good /\ ~(p.afterIndex /\ w.isnum)]

\* the precision: a dot, then "*" or digits; a dot alone is precision 0
Precision[format \in Seq(STRING), args \in Seq(Nat), p \in Printers] ==
    IF p.k <= Len(format) /\ format[p.k] = "."
    THEN LET q == ArgNumber[format, Len(args),
                            [p EXCEPT !.k = p.k + 1, !.good = p.good /\ ~p.afterIndex]]
         IN  IF q.k <= Len(format) /\ format[q.k] = "*"
             THEN IF q.argNum < Len(args)
                  THEN IF args[q.argNum + 1] > 1000000
                       THEN [q EXCEPT !.k = q.k + 1, !.argNum = q.argNum + 1,
                                      !.afterIndex = FALSE, !.out = q.out \o BadPrec]
                       ELSE [q EXCEPT !.k = q.k + 1, !.argNum = q.argNum + 1,
                                      !.afterIndex = FALSE,
                                      !.f.prec = args[q.argNum + 1], !.f.precPresent = TRUE]
                  ELSE [q EXCEPT !.k = q.k + 1, !.afterIndex = FALSE,
                                 !.out = q.out \o BadPrec]
             ELSE LET n == ParseNum[format, q.k, Len(format) + 1, 0, FALSE]
                  IN  [q EXCEPT !.k = n.k, !.f.prec = n.num, !.f.precPresent = TRUE]
    ELSE p

\* fmt.pad: the text padded to the width, on the left unless the minus flag
\* is set, with zeros if the zero flag is
Pad(f, text) ==
    IF ~f.widPresent \/ f.wid = 0 THEN text
    ELSE IF f.minus THEN text \o Fill(f.wid - Len(text), " ")
    ELSE Fill(f.wid - Len(text), IF f.zero THEN "0" ELSE " ") \o text

\* fmt.fmtInteger of n in the base: precision or zero flag give leading
\* zeros, "#" and the verb O a prefix, "+" and " " a sign, then padding with
\* spaces; precision 0 prints 0 as nothing
FmtInteger(f, n, base, verb, upper) ==
    LET prec == IF f.precPresent THEN f.prec
                ELSE IF f.zero /\ f.widPresent
                     THEN IF f.plus \/ f.space THEN f.wid - 1 ELSE f.wid
                ELSE 0
        digits == NumText[n, base, upper]
        zeroed == Fill(prec - Len(digits), "0") \o digits
        sharped == IF ~f.sharp THEN zeroed
                   ELSE IF base = 2 THEN <<"0", "b">> \o zeroed
                   ELSE IF base = 8
                        THEN IF zeroed[1] # "0" THEN <<"0">> \o zeroed ELSE zeroed
                   ELSE IF base = 16
                        THEN <<"0", IF upper THEN "X" ELSE "x">> \o zeroed
                   ELSE zeroed
        prefixed == IF verb = "O" THEN <<"0", "o">> \o sharped ELSE sharped
        signed == IF f.plus THEN <<"+">> \o prefixed
                  ELSE IF f.space THEN <<" ">> \o prefixed
                  ELSE prefixed
    IN  IF f.precPresent /\ f.prec = 0 /\ n = 0 THEN Fill(f.wid, " ")
        ELSE Pad([f EXCEPT !.zero = FALSE], signed)

\* strconv.QuoteRune of the character whose code is n
QuoteRune(n) ==
    LET escaped(c) == <<"'", "\\", c, "'">>
    IN  IF n = 39 THEN escaped("'")
        ELSE IF n = 92 THEN escaped("\\")
        ELSE IF n = 7 THEN escaped("a")
        ELSE IF n = 8 THEN escaped("b")
        ELSE IF n = 12 THEN escaped("f")
        ELSE IF n = 10 THEN escaped("n")
        ELSE IF n = 13 THEN escaped("r")
        ELSE IF n = 9 THEN escaped("t")
        ELSE IF n = 11 THEN escaped("v")
        ELSE IF IsPrint(n) THEN <<"'", Chr(n), "'">>
        ELSE <<"'", "\\", "x", LowerDigits[(n \div 16) + 1], LowerDigits[(n % 16) + 1], "'">>

\* fmt.fmtUnicode: "U+" and at least four hexadecimal digits; "#" adds the
\* character itself
FmtUnicode(f, n) ==
    LET digits == NumText[n, 16, TRUE]
        prec == IF f.precPresent /\ f.prec > 4 THEN f.prec ELSE 4
        quoted == IF f.sharp /\ IsPrint(n) THEN <<" ", "'", Chr(n), "'">> ELSE <<>>
    IN  Pad([f EXCEPT !.zero = FALSE],
            <<"U", "+">> \o Fill(prec - Len(digits), "0") \o digits \o quoted)

\* fmt.fmtS of the type name: cut to the precision, then padded
FmtType(f) ==
    LET name == <<"i", "n", "t">>
    IN  Pad(f, IF f.precPresent /\ f.prec < Len(name) THEN SubSeq(name, 1, f.prec) ELSE name)

\* pp.badVerb: the verb and the operand, the operand printed as %v prints it
\* under the flags of the directive
BadVerb(f, verb, n) ==
    <<"%", "!", verb, "(", "i", "n", "t", "=">> \o FmtInteger(f, n, 10, "v", FALSE) \o <<")">>

\* pp.printArg of the int n under a verb: v and d print it in decimal, b, o,
\* O, x and X in another base, c and q as a character, U as a code point, T
\* prints its type; any other verb is a bad verb for an int.  For %v the
\* flags "#" and "+" ask for Go syntax and field names, and leave an int as
\* it is; doPrintf takes them away for the verb w as well (fmt of Go 1.20
\* and later), which is a bad verb outside Errorf.
PrintArg(f, n, verb) ==
    IF verb = "T" THEN FmtType(f)
    ELSE IF verb = "v"
         THEN FmtInteger([f EXCEPT !.sharp = FALSE, !.plus = FALSE], n, 10, verb, FALSE)
    ELSE IF verb = "d" THEN FmtInteger(f, n, 10, verb, FALSE)
    ELSE IF verb = "b" THEN FmtInteger(f, n, 2, verb, FALSE)
    ELSE IF verb = "o" \/ verb = "O" THEN FmtInteger(f, n, 8, verb, FALSE)
    ELSE IF verb = "x" THEN FmtInteger(f, n, 16, verb, FALSE)
    ELSE IF verb = "X" THEN FmtInteger(f, n, 16, verb, TRUE)
    ELSE IF verb = "c" THEN Pad(f, <<Chr(n)>>)
    ELSE IF verb = "q" THEN Pad(f, QuoteRune(n))
    ELSE IF verb = "U" THEN FmtUnicode(f, n)
    ELSE IF verb = "w"
         THEN BadVerb([f EXCEPT !.sharp = FALSE, !.plus = FALSE], verb, n)
    ELSE BadVerb(f, verb, n)

MissingArg(verb) == <<"%", "!", verb, "(", "M", "I", "S", "S", "I", "N", "G", ")">>

BadIndex(verb) == <<"%", "!", verb, "(", "B", "A", "D", "I", "N", "D", "E", "X", ")">>

NoVerb == <<"%", "!", "(", "N", "O", "V", "E", "R", "B", ")">>

\* the operands no directive has used, each printed as %v prints it
ExtraList[args \in Seq(Nat)] ==
    IF args = <<>> THEN <<>>
    ELSE <<"i", "n", "t", "=">> \o Digits(Head(args))
             \o (IF Len(args) = 1 THEN <<>> ELSE <<",", " ">> \o ExtraList[Tail(args)])

ExtraArgs(args) ==
    IF args = <<>> THEN <<>>
    ELSE <<"%", "!", "(", "E", "X", "T", "R", "A", " ">> \o ExtraList[args] \o <<")">>

\* the verb at the position: "%" prints a percent sign and takes no operand,
\* a verb after a bad operand index or with no operand left is reported, any
\* other verb prints the next operand
Verb[format \in Seq(STRING), args \in Seq(Nat), p \in Printers] ==
    IF p.k > Len(format) THEN [p EXCEPT !.out = p.out \o NoVerb]
    ELSE IF format[p.k] = "%" THEN [p EXCEPT !.k = p.k + 1, !.out = Append(p.out, "%")]
    ELSE IF ~p.good
         THEN [p EXCEPT !.k = p.k + 1, !.out = p.out \o BadIndex(format[p.k])]
    ELSE IF p.argNum >= Len(args)
         THEN [p EXCEPT !.k = p.k + 1, !.out = p.out \o MissingArg(format[p.k])]
    ELSE [p EXCEPT !.k = p.k + 1, !.argNum = p.argNum + 1,
                   !.out = p.out \o PrintArg(p.f, args[p.argNum + 1], format[p.k])]

\* one directive, p.k being the position after its percent sign
Directive[format \in Seq(STRING), args \in Seq(Nat), p \in Printers] ==
    LET flags == ParseFlags[format, p.k, NoFlags]
        indexed == ArgNumber[format, Len(args),
                             [p EXCEPT !.k = flags.k, !.f = flags.f, !.good = TRUE,
                                       !.afterIndex = FALSE]]
        precise == Precision[format, args, Width[format, args, indexed]]
    IN  Verb[format, args,
             IF precise.afterIndex THEN precise ELSE ArgNumber[format, Len(args), precise]]

\* doPrintf from the state p on: text is copied up to the next percent
\* sign, a directive is carried out, and operands left at the end are
\* reported unless an index was used
SprintfFrom[format \in Seq(STRING), args \in Seq(Nat), p \in Printers] ==
    IF p.k > Len(format)
    THEN IF ~p.reordered /\ p.argNum < Len(args)
         THEN p.out \o ExtraArgs(SubSeq(args, p.argNum + 1, Len(args)))
         ELSE p.out
    ELSE IF format[p.k] # "%"
         THEN LET signs == {j \in p.k..Len(format) : format[j] = "%"}
                  next == IF signs = {} THEN Len(format) + 1
                          ELSE CHOOSE j \in signs : \A m \in signs : j <= m
              IN  SprintfFrom[format, args,
                              [p EXCEPT !.k = next,
                                        !.out = p.out \o SubSeq(format, p.k, next - 1)]]
    ELSE SprintfFrom[format, args, Directive[format, args, [p EXCEPT !.k = p.k + 1]]]

Sprintf(format, args) ==
    SprintfFrom[format, args,
                [k |-> 1, argNum |-> 0, f |-> NoFlags, good |-> TRUE, afterIndex |-> FALSE,
                 reordered |-> FALSE, out |-> <<>>]]

\* A directory is the set of its files, path -> data; the directories above
\* a file exist with it, and so do the output directory, the working
\* directory, the root and their parents; there are no links and nothing is
\* forbidden.  The data of a file is what has
\* been written to it: nothing, a part, or the whole of a content.
EmptyFile == <<>>

PartOf(content) == <<"part">>

WholeOf(content) == <<content>>

EmptyDir == [p \in {} |-> EmptyFile]

\* the empty path that accompanies an error
NoPath == <<>>

\* path lies below the path above
Below(path, above) ==
    /\ Len(path) > Len(above)
    /\ SubSeq(path, 1, Len(above)) = above
    /\ path[Len(above) + 1] = "/"

\* the sets of paths a directory can hold
Files == SUBSET Seq(STRING)

\* every element is ".."
AllUp[elems \in Seq(Seq(STRING))] == \A k \in 1..Len(elems) : elems[k] = <<".", ".">>

\* the cleaned path names a directory, the files being those given: the
\* output directory, the root, the working directory, a directory above
\* it, or a directory above a file
IsDir[files \in Files, cleaned \in Seq(STRING)] ==
    \/ cleaned = OutputDir
    \/ cleaned = <<"/">>
    \/ cleaned = <<".">>
    \/ AllUp[Elements[cleaned]]
    \/ \E p \in files : Below(p, cleaned)

\* the place the walk of a path stands at, by its elements, and the error
\* that has ended the walk, "nil" if none has
Walks == [at : Seq(Seq(STRING)), err : STRING]

\* one element of a path as the kernel walks it, the path being rooted or
\* not: nothing is looked up in a file; "." stays and ".." goes up; a name
\* of more than 255 bytes is too long; any other name must be a file or a
\* directory of the place the walk stands at
WalkElement(files, w, elem, rooted) ==
    IF w.err # "nil" \/ elem = <<>> THEN w
    ELSE IF PathOf[w.at, rooted] \in files THEN [w EXCEPT !.err = "ENOTDIR"]
    ELSE IF elem = <<".">> THEN w
    ELSE IF elem = <<".", ".">> THEN [w EXCEPT !.at = PushElement(w.at, elem, rooted)]
    ELSE IF Len(elem) > 255 THEN [w EXCEPT !.err = "ENAMETOOLONG"]
    ELSE IF \/ PathOf[Append(w.at, elem), rooted] \in files
            \/ IsDir[files, PathOf[Append(w.at, elem), rooted]]
         THEN [w EXCEPT !.at = Append(w.at, elem)]
    ELSE [w EXCEPT !.err = "ENOENT"]

\* the walk of a path as written, by its elements from the k-th on: the
\* first failure ends it
WalkFrom[files \in Files, elems \in Seq(Seq(STRING)), k \in Nat, w \in Walks, rooted \in BOOLEAN] ==
    IF k > Len(elems) THEN w
    ELSE WalkFrom[files, elems, k + 1, WalkElement(files, w, elems[k], rooted), rooted]

\* the err of a walk of the path that has ended as w: its failure, and a
\* path that ends in a separator must name a directory
WalkErr[files \in Files, path \in Seq(STRING), w \in Walks] ==
    IF w.err # "nil" THEN w.err
    ELSE IF path[Len(path)] = "/" /\ PathOf[w.at, path[1] = "/"] \in files THEN "ENOTDIR"
    ELSE "nil"

\* the err of os.Stat(path), "nil" if the path names a file or a directory:
\* a zero byte is refused before the call, the empty path does not exist, a
\* path of more than 4095 bytes is too long, any other is walked
Stat[files \in Files, path \in Seq(STRING)] ==
    IF \E k \in 1..Len(path) : path[k] = Chr(0) THEN "EINVAL"
    ELSE IF path = <<>> THEN "ENOENT"
    ELSE IF Len(path) > 4095 THEN "ENAMETOOLONG"
    ELSE WalkErr[files, path,
                 WalkFrom[files, Elements[path], 1, [at |-> <<>>, err |-> "nil"],
                          path[1] = "/"]]

\* not os.IsNotExist(err) for the err of os.Stat(path): the code takes the
\* path as taken whenever Stat finds something or fails in another way
Exists[files \in Files, path \in Seq(STRING)] == Stat[files, path] # "ENOENT"

\* the path the loop of validFilenameMaker tries at index i; the file name is
\* part of the format string
FullPath(dir, noSuffix, ext, i) ==
    Join(dir, Sprintf(noSuffix \o <<"_", "%", "d">> \o ext, <<i>>))

\* the loop of validFilenameMaker from index i on: the indices are tried in
\* order, the first whose path is not taken is returned, and the loop ends
\* in the error when every index below maxIndices is taken
FirstFree[files \in Files, dir \in Seq(STRING), noSuffix \in Seq(STRING), ext \in Seq(STRING), i \in Nat] ==
    IF \A j \in i..(maxIndices - 1) : Exists[files, FullPath(dir, noSuffix, ext, j)]
    THEN [path |-> NoPath, err |-> TRUE]
    ELSE LET first == CHOOSE j \in i..(maxIndices - 1) :
                          /\ ~Exists[files, FullPath(dir, noSuffix, ext, j)]
                          /\ \A m \in i..(j - 1) : Exists[files, FullPath(dir, noSuffix, ext, m)]
         IN  [path |-> FullPath(dir, noSuffix, ext, first), err |-> FALSE]

validFilenameMaker(fs, writePath) ==
    IF ~Exists[DOMAIN fs, writePath]
    THEN [path |-> writePath, err |-> FALSE]
    ELSE LET ext == Ext(writePath)
             base == Base(writePath)
             dir == Dir(writePath)
             noSuffix == TrimSuffix(base, ext)
         IN  FirstFree[DOMAIN fs, dir, noSuffix, ext, 0]

GetResults == {"ok", "badStatus", "netErr"}

\* Getter.Get: err != nil only when http.Get itself fails
GetErr(res) == res = "netErr"

WriteFaults == {"none", "create", "read", "write"}

\* the directory with data at the path
WithFile(fs, path, data) ==
    [p \in (DOMAIN fs) \cup {path} |-> IF p = path THEN data ELSE fs[p]]

----------------------------------------------------------------------------
(* The process as a whole *)

\* Goroutines run until main returns or a panic goes unrecovered; either
\* ends the process, with every other goroutine wherever it then is.
Running == mpc = "recv" /\ crashed = "none"

\* `supervisor <- &OperationReply{...}` taken together with main's receive
\* and logging of it; a send on the closed channel panics inside the
\* deferred function, which nothing recovers.
SupSend(who, rec) ==
    IF supClosed
    THEN /\ crashed' = who
         /\ UNCHANGED <<supClosed, log, mpc>>
    ELSE /\ log' = Append(log, rec)
         /\ UNCHANGED <<supClosed, mpc, crashed>>

\* no direct call of validFilenameMaker has returned
NoAnswer == <<>>

\* the goroutines of a run before `go req.Main()`, whatever the directory
InitRun ==
    /\ nres = 0
    /\ rpc = "request"
    /\ rstatus = "none"
    /\ ri = 1
    /\ pair = NoUrl
    /\ tsClosed = FALSE
    /\ spc = "start"
    /\ urlPtr = 0
    /\ currentRoutines = 0
    /\ launched = 0
    /\ wg = 0
    /\ gwClosed = FALSE
    /\ gpc = [i \in Getters |-> "idle"]
    /\ gurl = [i \in Getters |-> NoUrl]
    /\ gres = [i \in Getters |-> "none"]
    /\ gstatus = [i \in Getters |-> "none"]
    /\ wpc = "idle"
    /\ received = 0
    /\ imgData = NoImg
    /\ file = NoPath
    /\ dropped = {}
    /\ supClosed = FALSE
    /\ log = <<>>
    /\ mpc = "recv"
    /\ crashed = "none"

\* a run into an empty directory that takes every file
Init ==
    /\ InitRun
    /\ maxRoutines \in Budgets
    /\ dirFaults = {"none"}
    /\ disk = EmptyDir
    /\ askPath = NoPath
    /\ answer = NoAnswer

\* a run into an empty directory where os.Create, ioutil.ReadAll and
\* file.Write may each fail
DiskInit ==
    /\ InitRun
    /\ maxRoutines \in Budgets
    /\ dirFaults = WriteFaults
    /\ disk = EmptyDir
    /\ askPath = NoPath
    /\ answer = NoAnswer

----------------------------------------------------------------------------
(* Requester.Main *)

\* results, err := r.Request(); a non-nil err panics into the deferred report
ReqRequest ==
    /\ Running /\ rpc = "request"
    /\ \/ /\ rstatus' = Failure
          /\ rpc' = "report"
          /\ nres' = 0
       \/ /\ rstatus' = Success
          /\ nres' \in 0..MaxN
          /\ rpc' = IF nres' >= 1 THEN "assignPtr" ELSE "close"
    /\ UNCHANGED <<ri, pair, tsClosed, maxRoutines, spc, urlPtr, currentRoutines,
                   launched, wg, gwClosed>>
    /\ UNCHANGED <<getVars, wriVars, supVars>>

\* `for _, pair := range results`: the loop has one variable `pair` for all
\* its iterations (the package declares no Go language version), and each
\* iteration copies results[ri] into it word by word.  The Spawner reads the
\* same variable through the pointer it received, with nothing ordering
\* the two: the copy and the read are separate steps here, so the read
\* yields the old words, the new ones, or one of each.

\* pair = results[ri], first word of the MediaUrl string
ReqAssignPtr ==
    /\ Running /\ rpc = "assignPtr"
    /\ pair' = [pair EXCEPT !.ptr = MediaUrl(ri).ptr]
    /\ rpc' = "assignLen"
    /\ UNCHANGED <<nres, rstatus, ri, tsClosed, wg>>
    /\ UNCHANGED <<spaVars, getVars, wriVars, supVars>>

\* pair = results[ri], second word of the MediaUrl string
ReqAssignLen ==
    /\ Running /\ rpc = "assignLen"
    /\ pair' = [pair EXCEPT !.len = MediaUrl(ri).len]
    /\ rpc' = "send"
    /\ UNCHANGED <<nres, rstatus, ri, tsClosed, wg>>
    /\ UNCHANGED <<spaVars, getVars, wriVars, supVars>>

\* r.childWorker <- &pair, received by `pair, ok = <-s.targetStream`
PairHandoff ==
    /\ Running /\ rpc = "send" /\ spc = "recv"
    /\ ri' = ri + 1
    /\ rpc' = IF ri + 1 <= nres THEN "assignPtr" ELSE "close"
    /\ spc' = "readPtr"
    /\ UNCHANGED <<nres, rstatus, pair, tsClosed, wg>>
    /\ UNCHANGED <<maxRoutines, urlPtr, currentRoutines, launched, gwClosed>>
    /\ UNCHANGED <<getVars, wriVars, supVars>>

ReqClose ==
    /\ Running /\ rpc = "close"
    /\ tsClosed' = TRUE
    /\ rpc' = "report"
    /\ UNCHANGED <<nres, rstatus, ri, pair, wg>>
    /\ UNCHANGED <<spaVars, getVars, wriVars, supVars>>

ReqReport ==
    /\ Running /\ rpc = "report"
    /\ SupSend("Requester",
               Reply("Requester", rstatus,
                     IF rstatus = Failure THEN "requestError" ELSE "nil"))
    /\ rpc' = "done"
    /\ UNCHANGED <<nres, rstatus, ri, pair, tsClosed, wg>>
    /\ UNCHANGED <<spaVars, getVars, wriVars>>

----------------------------------------------------------------------------
(* Spawner.Main *)

\* the admission test written with > for >=
AtBudgetOffByOne(current, max) == current > max

\* if currentRoutines >= s.maxRoutines
AtBudget(current, max) == current >= max

\* wgp.Add(1); make the channels; go writer.Main(wgp)
SpawnerStart ==
    /\ Running /\ spc = "start"
    /\ wg' = wg + 1
    /\ wpc' = "recv"
    /\ spc' = "recv"
    /\ UNCHANGED <<maxRoutines, urlPtr, currentRoutines, launched, gwClosed>>
    /\ UNCHANGED <<received, imgData, file, dirFaults, askPath, answer, disk, dropped>>
    /\ UNCHANGED <<reqVars, getVars, supVars>>

\* pair, ok = <-s.targetStream with ok = false
SpawnerRecvClosed ==
    /\ Running /\ spc = "recv" /\ tsClosed
    /\ spc' = "wgDone"
    /\ UNCHANGED <<maxRoutines, urlPtr, currentRoutines, launched, gwClosed, wg>>
    /\ UNCHANGED <<reqVars, getVars, wriVars, supVars>>

\* pair.MediaUrl, first word, read through the pointer received
SpawnerReadPtr ==
    /\ Running /\ spc = "readPtr"
    /\ urlPtr' = pair.ptr
    /\ spc' = "launch"
    /\ UNCHANGED <<maxRoutines, currentRoutines, launched, gwClosed, wg>>
    /\ UNCHANGED <<reqVars, getVars, wriVars, supVars>>

\* a launch without its wgp.Add(1)
SpawnerLaunchNoAdd ==
    /\ Running /\ spc = "launch"
    /\ launched < MaxN
    /\ LET i == launched + 1 IN
        /\ gurl' = [gurl EXCEPT ![i] = [ptr |-> urlPtr, len |-> pair.len]]
        /\ gpc' = [gpc EXCEPT ![i] = "get"]
        /\ launched' = i
    /\ currentRoutines' = currentRoutines + 1
    /\ spc' = IF AtBudget(currentRoutines + 1, maxRoutines) THEN "probe" ELSE "recv"
    /\ UNCHANGED <<maxRoutines, urlPtr, gwClosed, gres, gstatus, wg>>
    /\ UNCHANGED <<reqVars, wriVars, supVars>>

\* pair.MediaUrl, second word; wgp.Add(1); go getter.Main(wgp);
\* currentRoutines++; the test against maxRoutines
SpawnerLaunch ==
    /\ Running /\ spc = "launch"
    /\ launched < MaxN
    /\ LET i == launched + 1 IN
        /\ gurl' = [gurl EXCEPT ![i] = [ptr |-> urlPtr, len |-> pair.len]]
        /\ gpc' = [gpc EXCEPT ![i] = "get"]
        /\ launched' = i
    /\ wg' = wg + 1
    /\ currentRoutines' = currentRoutines + 1
    /\ spc' = IF AtBudget(currentRoutines + 1, maxRoutines) THEN "probe" ELSE "recv"
    /\ UNCHANGED <<maxRoutines, urlPtr, gwClosed, gres, gstatus>>
    /\ UNCHANGED <<reqVars, wriVars, supVars>>

\* a probe receive without currentRoutines--
ProbeHandoffNoDecrement(i) ==
    /\ Running /\ spc = "probe" /\ gpc[i] = "probe"
    /\ gpc' = [gpc EXCEPT ![i] = "exited"]
    /\ spc' = "recv"
    /\ UNCHANGED <<maxRoutines, urlPtr, currentRoutines, launched, gwClosed, wg,
                   gurl, gres, gstatus>>
    /\ UNCHANGED <<reqVars, wriVars, supVars>>

\* g.spawnerProbe <- true, received by `_ = <-probe`; currentRoutines--.
\* The send is the last statement of the getter's deferred function.
ProbeHandoff(i) ==
    /\ Running /\ spc = "probe" /\ gpc[i] = "probe"
    /\ gpc' = [gpc EXCEPT ![i] = "exited"]
    /\ currentRoutines' = currentRoutines - 1
    /\ spc' = "recv"
    /\ UNCHANGED <<maxRoutines, urlPtr, launched, gwClosed, wg, gurl, gres, gstatus>>
    /\ UNCHANGED <<reqVars, wriVars, supVars>>

\* the loop exit without the Spawner's own wgp.Done()
SpawnerWgDoneMissing ==
    /\ Running /\ spc = "wgDone"
    /\ spc' = "wait"
    /\ UNCHANGED <<maxRoutines, urlPtr, currentRoutines, launched, gwClosed, wg>>
    /\ UNCHANGED <<reqVars, getVars, wriVars, supVars>>

\* wgp.Done() after the loop
SpawnerWgDone ==
    /\ Running /\ spc = "wgDone"
    /\ wg' = wg - 1
    /\ spc' = "wait"
    /\ UNCHANGED <<maxRoutines, urlPtr, currentRoutines, launched, gwClosed>>
    /\ UNCHANGED <<reqVars, getVars, wriVars, supVars>>

\* a Wait that does not wait
WaitReturnsAtOnce(counter) == counter >= 0

\* wgp.Wait() returns once the counter is zero
WaitReturns(counter) == counter = 0

SpawnerWait ==
    /\ Running /\ spc = "wait"
    /\ WaitReturns(wg)
    /\ spc' = "close"
    /\ UNCHANGED <<maxRoutines, urlPtr, currentRoutines, launched, gwClosed, wg>>
    /\ UNCHANGED <<reqVars, getVars, wriVars, supVars>>

\* close(getAndWrite)
SpawnerClose ==
    /\ Running /\ spc = "close"
    /\ gwClosed' = TRUE
    /\ spc' = "report"
    /\ UNCHANGED <<maxRoutines, urlPtr, currentRoutines, launched, wg>>
    /\ UNCHANGED <<reqVars, getVars, wriVars, supVars>>

\* the deferred function: nothing in the body panics, so the reply is Success
SpawnerReport ==
    /\ Running /\ spc = "report"
    /\ SupSend("Spawner", Reply("Spawner", Success, "nil"))
    /\ spc' = "done"
    /\ UNCHANGED <<maxRoutines, urlPtr, currentRoutines, launched, gwClosed, wg>>
    /\ UNCHANGED <<reqVars, getVars, wriVars>>

----------------------------------------------------------------------------
(* Getter.Main *)

\* a deferred function that reports Success without consulting recover()
GetOutcomeAlwaysSuccess(res) == Success

\* what recover() yields after g.Get(): the panic value when err != nil
GetOutcome(res) == IF GetErr(res) THEN Failure ELSE Success

\* content, err := g.Get(); if err != nil { panic(err) }
GetterGet(i) ==
    /\ Running /\ gpc[i] = "get"
    /\ \E res \in GetResults :
        /\ gres' = [gres EXCEPT ![i] = res]
        /\ IF GetErr(res)
           THEN /\ gstatus' = [gstatus EXCEPT ![i] = GetOutcome(res)]
                /\ gpc' = [gpc EXCEPT ![i] = "report"]
           ELSE /\ gstatus' = gstatus
                /\ gpc' = [gpc EXCEPT ![i] = "post"]
    /\ UNCHANGED <<gurl, wg>>
    /\ UNCHANGED <<reqVars, spaVars, wriVars, supVars>>

\* fileName := filepath.Base(g.url); g.imgPost <- &ImgData{fileName, content},
\* received by `imgData, ok := <-w.imgBox` of the Writer.  A send on the
\* closed channel panics and the deferred function recovers it.
GetterPost(i) ==
    /\ Running /\ gpc[i] = "post"
    /\ IF gwClosed
       THEN /\ gstatus' = [gstatus EXCEPT ![i] = Failure]
            /\ UNCHANGED wriVars
       ELSE /\ wpc = "recv"
            /\ gstatus' = [gstatus EXCEPT ![i] = GetOutcome(gres[i])]
            /\ imgData' = ImgData(Base(UrlText(gurl[i])), [url |-> gurl[i], res |-> gres[i]])
            /\ received' = received + 1
            /\ wpc' = "create"
            /\ UNCHANGED <<file, dirFaults, disk, dropped, askPath, answer>>
    /\ gpc' = [gpc EXCEPT ![i] = "report"]
    /\ UNCHANGED <<gurl, gres, wg>>
    /\ UNCHANGED <<reqVars, spaVars, supVars>>

\* what recover() returns in the deferred function of a getter that
\* panicked: the error of Get, or the runtime error of the send
GetterPanic(i) ==
    IF GetErr(gres[i]) THEN <<"Get", gurl[i]>> ELSE <<"send on closed channel">>

\* the deferred function, first statement: the reply to the supervisor
GetterReport(i) ==
    /\ Running /\ gpc[i] = "report"
    /\ SupSend("Getter",
               Reply("Getter", gstatus[i],
                     IF gstatus[i] = Failure THEN GetterPanic(i) ELSE "nil"))
    /\ gpc' = [gpc EXCEPT ![i] = "wgDone"]
    /\ UNCHANGED <<gurl, gres, gstatus, wg>>
    /\ UNCHANGED <<reqVars, spaVars, wriVars>>

\* a deferred function that signals the probe on the success path only
GetterWgDoneSignalOnSuccessOnly(i) ==
    /\ Running /\ gpc[i] = "wgDone"
    /\ wg' = wg - 1
    /\ gpc' = [gpc EXCEPT ![i] = IF gstatus[i] = Failure THEN "exited" ELSE "probe"]
    /\ UNCHANGED <<gurl, gres, gstatus>>
    /\ UNCHANGED <<reqVars, spaVars, wriVars, supVars>>

\* the deferred function, second statement: wg.Done()
GetterWgDone(i) ==
    /\ Running /\ gpc[i] = "wgDone"
    /\ wg' = wg - 1
    /\ gpc' = [gpc EXCEPT ![i] = "probe"]
    /\ UNCHANGED <<gurl, gres, gstatus>>
    /\ UNCHANGED <<reqVars, spaVars, wriVars, supVars>>

----------------------------------------------------------------------------
(* Writer.Main *)

\* a receive loop that may stop while imgBox is still open
WriterDrainedEarly ==
    /\ Running /\ wpc = "recv"
    /\ wpc' = "report"
    /\ UNCHANGED <<received, imgData, file, dirFaults, askPath, answer, disk, dropped, wg>>
    /\ UNCHANGED <<reqVars, spaVars, getVars, supVars>>

\* the Writer is back at its receive with the error Write returned, which
\* Main drops
WriteReturns(err) ==
    /\ wpc' = "recv"
    /\ imgData' = NoImg
    /\ file' = NoPath
    /\ dropped' = IF err = "nil" THEN dropped ELSE dropped \cup {err}

\* w.Write(imgData.name, imgData.content) up to os.Create: the path is
\* chosen and the file created, empty; an error ends Write
WriterCreate ==
    /\ Running /\ wpc = "create"
    /\ \E candidatePath \in {Join(OutputDir, imgData.name)} :
       \E valid \in {validFilenameMaker(disk, candidatePath)} :
       \E fault \in dirFaults :
          IF valid.err
          THEN WriteReturns("naming") /\ UNCHANGED disk
          ELSE IF fault = "create" \/ ~IsDir[DOMAIN disk, Dir(valid.path)]
               THEN WriteReturns("create") /\ UNCHANGED disk
          ELSE /\ disk' = WithFile(disk, valid.path, EmptyFile)
               /\ file' = valid.path
               /\ wpc' = "fill"
               /\ UNCHANGED <<imgData, dropped>>
    /\ UNCHANGED <<received, dirFaults, askPath, answer, wg>>
    /\ UNCHANGED <<reqVars, spaVars, getVars, supVars>>

\* w.Write from ioutil.ReadAll(*rc) on: the content is read and written to
\* the file, unless the read fails, or the write after a part of it
WriterFill ==
    /\ Running /\ wpc = "fill"
    /\ \E fault \in dirFaults :
          IF fault = "read"
          THEN WriteReturns("read") /\ UNCHANGED disk
          ELSE IF fault = "write"
               THEN WriteReturns("write") /\ disk' = WithFile(disk, file, PartOf(imgData.content))
          ELSE WriteReturns("nil") /\ disk' = WithFile(disk, file, WholeOf(imgData.content))
    /\ UNCHANGED <<received, dirFaults, askPath, answer, wg>>
    /\ UNCHANGED <<reqVars, spaVars, getVars, supVars>>

\* imgData, ok = <-w.imgBox with ok = false
WriterDrained ==
    /\ Running /\ wpc = "recv" /\ gwClosed
    /\ wpc' = "report"
    /\ UNCHANGED <<received, imgData, file, dirFaults, askPath, answer, disk, dropped, wg>>
    /\ UNCHANGED <<reqVars, spaVars, getVars, supVars>>

\* the deferred function: nothing in the body panics, so the reply is Success
WriterReport ==
    /\ Running /\ wpc = "report"
    /\ SupSend("Writer", Reply("Writer", Success, "nil"))
    /\ wpc' = "close"
    /\ UNCHANGED <<received, imgData, file, dirFaults, askPath, answer, disk, dropped, wg>>
    /\ UNCHANGED <<reqVars, spaVars, getVars>>

\* close(w.supervisor)
WriterClose ==
    /\ Running /\ wpc = "close"
    /\ supClosed' = TRUE
    /\ wpc' = "done"
    /\ UNCHANGED <<received, imgData, file, dirFaults, askPath, answer, disk, dropped, wg, log, mpc, crashed>>
    /\ UNCHANGED <<reqVars, spaVars, getVars>>

----------------------------------------------------------------------------
(* main *)

\* reply, ok = <-opStatus with ok = false: the loop ends and main returns
MainExit ==
    /\ Running /\ supClosed
    /\ mpc' = "exited"
    /\ UNCHANGED <<supClosed, log, crashed, wg>>
    /\ UNCHANGED <<reqVars, spaVars, getVars, wriVars>>

----------------------------------------------------------------------------

Requester ==
    \/ ReqRequest \/ ReqAssignPtr \/ ReqAssignLen \/ ReqClose \/ ReqReport

Spawner ==
    \/ SpawnerStart \/ PairHandoff \/ SpawnerRecvClosed \/ SpawnerReadPtr
    \/ SpawnerLaunch \/ SpawnerWgDone \/ SpawnerWait \/ SpawnerClose
    \/ SpawnerReport

Getter(i) ==
    \/ GetterGet(i) \/ GetterPost(i) \/ GetterReport(i) \/ GetterWgDone(i)
    \/ ProbeHandoff(i)

Writer ==
    \/ WriterCreate \/ WriterFill \/ WriterDrained \/ WriterReport \/ WriterClose

Next ==
    \/ Requester
    \/ Spawner
    \/ \E i \in Getters : Getter(i)
    \/ Writer
    \/ MainExit

Spec == Init /\ [][Next]_vars

\* The Go scheduler runs every runnable goroutine, and a channel operation
\* whose partner is waiting completes.
FairSpec ==
    /\ Spec
    /\ WF_vars(Requester)
    /\ WF_vars(Spawner)
    /\ \A i \in Getters : WF_vars(Getter(i))
    /\ WF_vars(Writer)
    /\ WF_vars(MainExit)

\* The pipeline writing into a directory that can fail.
DiskSpec == DiskInit /\ [][Next]_vars

----------------------------------------------------------------------------
(* validFilenameMaker called on its own, as TestValidFilenameMaker does *)

StemChars == {"a", "%", "d", "2"}

Stems == UNION {[1..n -> StemChars] : n \in 0..MaxStem}

Exts == {<<>>, <<".", "p">>}

\* path.Join(tmpdir, name) for every name of a stem and an extension
NameArgs ==
    {Join(OutputDir, stem \o ext) : stem \in Stems, ext \in Exts}
        \ {Join(OutputDir, <<>>)}

\* path.Join(tmpdir, fmt.Sprintf("foo_%d.png", i)) for the path of foo.png:
\* the index, after an underscore, before the extension
Disambiguated(path, i) ==
    Join(Dir(path), TrimSuffix(Base(path), Ext(path)) \o <<"_">> \o Digits(i) \o Ext(path))

\* the directory after os.Create of the path (or not), of its siblings
\* 0..k-1, and of sibling k+1 (or not)
Listing(path, withPath, k, beyond) ==
    LET files == (IF withPath THEN {path} ELSE {})
                   \cup {Disambiguated(path, i) : i \in 0..(k - 1)}
                   \cup (IF beyond /\ k + 1 < maxIndices
                         THEN {Disambiguated(path, k + 1)} ELSE {})
    IN  [f \in files |-> EmptyFile]

\* how many siblings the directory holds: none, a few, across the step
\* from one digit to two, all but the last, all
SiblingCounts == {0, 1, 2, 10, 11, maxIndices - 1, maxIndices}

NameInit ==
    /\ InitRun
    /\ maxRoutines = 1
    /\ dirFaults = {"none"}
    /\ askPath \in NameArgs
    /\ \E withPath \in BOOLEAN, k \in SiblingCounts, beyond \in BOOLEAN :
          disk = Listing(askPath, withPath, k, beyond)
    /\ answer = NoAnswer

\* validFile, err = validFilenameMaker(path)
CallValidFilenameMaker ==
    /\ answer = NoAnswer
    /\ answer' = <<validFilenameMaker(disk, askPath)>>
    /\ UNCHANGED <<wpc, received, imgData, file, dirFaults, disk, dropped, askPath, wg>>
    /\ UNCHANGED <<reqVars, spaVars, getVars, supVars>>

NameNext == CallValidFilenameMaker

NameSpec == NameInit /\ [][NameNext]_vars

----------------------------------------------------------------------------
(* Vocabulary of the properties *)

\* getters launched by Spawner.Main whose goroutine has not returned
LiveGetters == {i \in Getters : gpc[i] \notin {"idle", "exited"}}

\* getters whose deferred function has sent its reply
Reported(i) == gpc[i] \in {"wgDone", "probe", "exited"}

\* getters that are past the content send of Getter.Main
PastPost(i) == gpc[i] \in {"report", "wgDone", "probe", "exited"}

CountLog(objType, status) ==
    Cardinality({j \in 1..Len(log) :
                    log[j].ObjType = objType /\ log[j].Status = status})

CountKind(objType) == CountLog(objType, Success) + CountLog(objType, Failure)

AtSend(pc) == pc = "report"

\* getters whose goroutine has returned
ExitedGetters == {i \in Getters : gpc[i] = "exited"}

\* getters that have not yet called wg.Done()
BeforeWgDone == {i \in Getters : gpc[i] \in {"get", "post", "report", "wgDone"}}

\* what a budget of `max` amounts to: the test follows the increment, so
\* one getter is admitted whatever the budget
EffectiveBudget(max) == IF max >= 1 THEN max ELSE 1

\* statements executed so far, goroutine by goroutine
ReqSteps ==
    4 * ri + (CASE rpc = "request" -> 0
                [] rpc \in {"assignPtr", "close"} -> 1
                [] rpc \in {"assignLen", "report"} -> 2
                [] rpc \in {"send", "done"} -> 3)

SpaSteps ==
    4 * launched + (CASE spc \in {"start", "probe"} -> 0
                      [] spc = "recv" -> 1
                      [] spc \in {"readPtr", "wgDone"} -> 2
                      [] spc \in {"launch", "wait"} -> 3
                      [] spc = "close" -> 4
                      [] spc = "report" -> 5
                      [] spc = "done" -> 6)

GetSteps(i) ==
    CASE gpc[i] = "idle" -> 0
      [] gpc[i] = "get" -> 1
      [] gpc[i] = "post" -> 2
      [] gpc[i] = "report" -> 3
      [] gpc[i] = "wgDone" -> 4
      [] gpc[i] = "probe" -> 5
      [] gpc[i] = "exited" -> 6

WriSteps ==
    CASE wpc = "idle" -> 0
      [] wpc = "create" -> 3 * received - 1
      [] wpc = "fill" -> 3 * received
      [] wpc = "recv" -> 3 * received + 1
      [] wpc = "report" -> 3 * received + 2
      [] wpc = "close" -> 3 * received + 3
      [] wpc = "done" -> 3 * received + 4

RECURSIVE SumGetSteps(_)
SumGetSteps(n) == IF n = 0 THEN 0 ELSE GetSteps(n) + SumGetSteps(n - 1)

Steps ==
    ReqSteps + SpaSteps + SumGetSteps(MaxN) + WriSteps
        + (IF mpc = "exited" THEN 1 ELSE 0)

StepBound == 4 * (MaxN + 1) + 3 + 4 * MaxN + 6 + 6 * MaxN + 3 * MaxN + 4 + 1

----------------------------------------------------------------------------
(* Properties *)

\* C1: with a budget of at least 1, the number of live Getter goroutines
\* (launched and not yet returned) never exceeds the budget.
C1_LiveWithinBudget ==
    maxRoutines >= 1 => Cardinality(LiveGetters) <= maxRoutines

\* the gate holds: one getter live at budget 1, the Spawner waits on the
\* probe while the Requester waits to hand over the next descriptor
C1_Witness ==
    /\ maxRoutines = 1 /\ nres = 2
    /\ spc = "probe" /\ rpc = "send"
    /\ Cardinality(LiveGetters) = 1

\* C2: with a budget of at least 1, the log holds one Getter record per
\* getter that has reported, with the status that getter saw, and once the
\* outcome channel is closed every one of the N descriptors has a getter
\* that has reported: N Getter records in all.
C2_OneRecordPerFetcher ==
    maxRoutines >= 1 =>
        /\ \A st \in {Success, Failure} :
              CountLog("Getter", st) =
                  Cardinality({i \in Getters : Reported(i) /\ gstatus[i] = st})
        /\ supClosed =>
              /\ launched = nres
              /\ \A i \in 1..nres : Reported(i)
              /\ CountKind("Getter") = nres

C2_Witness ==
    /\ supClosed /\ maxRoutines = 2 /\ nres = 2
    /\ CountLog("Getter", Success) = 1
    /\ CountLog("Getter", Failure) = 1

\* C3: no goroutine sends on the outcome channel once the Writer has closed
\* it: no send on the closed channel ever happens, and at no moment after
\* the close is the Requester, the Spawner or a Getter at its send.
C3_NoSendAfterClose ==
    /\ crashed = "none"
    /\ supClosed =>
          /\ ~AtSend(rpc)
          /\ ~AtSend(spc)
          /\ \A i \in Getters : ~AtSend(gpc[i])

\* C4: once the descriptor stream is closed the run cannot stop short of
\* the close of the outcome channel with a getter launched for every
\* descriptor, whatever the fetches return: until then some goroutine can
\* always take a step, and every step of the program is one of boundedly
\* many (Steps grows with each and never passes StepBound), so a scheduler
\* that keeps running what can run reaches the close.
C4_RunCompletes ==
    /\ [](tsClosed => ((supClosed /\ launched = nres) \/ ENABLED Next))
    /\ [][Steps' > Steps]_vars
    /\ [](Steps \in 0..StepBound)

\* a run that completed although every fetch failed
C4_Witness ==
    /\ supClosed /\ nres = 2 /\ launched = 2
    /\ \A i \in 1..2 : gres[i] = "netErr"

\* C5: when the channel is closed after a run with a budget of at least 1
\* in which every fetch succeeded, main has received N Success records from
\* getters, exactly one from the Spawner and exactly one from the Writer.
C5_AllSuccessRecords ==
    (/\ supClosed /\ maxRoutines >= 1
     /\ \A i \in 1..launched : gres[i] = "ok") =>
        /\ CountLog("Getter", Success) = nres
        /\ CountLog("Spawner", Success) = 1
        /\ CountLog("Writer", Success) = 1
        /\ CountKind("Getter") + CountKind("Spawner") + CountKind("Writer") = nres + 2

\* C6: with a budget of zero or less the Spawner launches no getter and
\* its record, once sent, is a Failure.
C6_RejectsBadBudget ==
    maxRoutines <= 0 =>
        /\ launched = 0
        /\ CountLog("Spawner", Success) = 0
        /\ spc = "done" => CountLog("Spawner", Failure) = 1

\* C7: with a budget of at least 1, every launched getter eventually
\* returns, that is, gets past its send on the probe channel.
C7_EveryGetterExits ==
    \A i \in Getters :
        (maxRoutines >= 1 /\ gpc[i] # "idle") ~> (gpc[i] = "exited")

\* C8: a getter reports Failure exactly when its fetch returned an error,
\* and then hands over no content; every other getter reports Success and
\* hands over one item; the Spawner's and the Writer's records are Success;
\* and at the close every descriptor's getter has reported.
C8_FailureIsolated ==
    /\ \A i \in Getters :
          Reported(i) => (gstatus[i] = Failure <=> gres[i] = "netErr")
    /\ CountLog("Getter", Failure) =
          Cardinality({i \in Getters : Reported(i) /\ gres[i] = "netErr"})
    /\ CountLog("Getter", Success) =
          Cardinality({i \in Getters : Reported(i) /\ gres[i] # "netErr"})
    /\ received = Cardinality({i \in Getters : PastPost(i) /\ gres[i] # "netErr"})
    /\ CountLog("Spawner", Failure) = 0
    /\ CountLog("Writer", Failure) = 0
    /\ supClosed =>
          /\ \A i \in 1..nres : Reported(i)
          /\ CountLog("Writer", Success) = 1

\* one fetch failed, the other succeeded, and the Spawner and the Writer
\* both reported Success
C8_Witness ==
    /\ supClosed /\ nres = 2
    /\ CountLog("Getter", Failure) = 1
    /\ CountLog("Getter", Success) = 1
    /\ received = 1
    /\ CountLog("Spawner", Success) = 1
    /\ CountLog("Writer", Success) = 1

\* C9: once the stream is exhausted and every descriptor has its getter,
\* each descriptor's locator is the url of exactly one getter.
C9_EachLocatorOnce ==
    (tsClosed /\ launched = nres) =>
        \A k \in 1..nres :
            Cardinality({i \in 1..launched : gurl[i] = MediaUrl(k)}) = 1

\* C10: no Getter or Spawner record follows the Writer's record in what
\* main receives, and when the channel is closed the Writer's record is the
\* last one received.
C10_SinkRecordLast ==
    /\ \A j, k \in 1..Len(log) :
          (log[j].ObjType = "Writer" /\ j < k) =>
              log[k].ObjType \notin {"Getter", "Spawner"}
    /\ supClosed => CountKind("Writer") = 1

\* C11: when the stream was closed without a descriptor and the outcome
\* channel is closed, no getter was launched, main has no Getter record,
\* nothing was written, and main has received one Success record from the
\* Spawner and one from the Writer.
C11_EmptyStream ==
    (tsClosed /\ nres = 0 /\ supClosed) =>
        /\ launched = 0
        /\ CountKind("Getter") = 0
        /\ received = 0 /\ DOMAIN disk = {}
        /\ CountLog("Spawner", Success) = 1
        /\ CountLog("Writer", Success) = 1

\* C12: a getter whose fetch came back with a non-success status reports
\* Failure and hands nothing to the Writer: the items the Writer has taken
\* are those of the getters whose fetch was answered with success.
C12_BadStatusIsFailure ==
    /\ \A i \in Getters :
          (Reported(i) /\ gres[i] = "badStatus") => gstatus[i] = Failure
    /\ received = Cardinality({i \in Getters : PastPost(i) /\ gres[i] = "ok"})

\* C15: Spawner.Main has returned, its record sent, only when the content
\* channel is closed and every getter it launched has returned: none is
\* still running or blocked.
C15_SpawnerOutlivesGetters ==
    (spc = "done" /\ crashed = "none") =>
        /\ gwClosed
        /\ \A i \in 1..launched : gpc[i] = "exited"

\* C19: after Request() failed the run does not stop short of the close of
\* the outcome channel: until the channel is closed some goroutine can take
\* a step.
C19_FailedSearchTerminates ==
    rstatus = Failure => (supClosed \/ ENABLED Next)

\* C16: the Spawner never waits on the probe in vain.  Whenever it is at
\* `<-probe` its counter is at budget, the program is running, some getter
\* is live, and every live getter can take its next step (its fetch, its
\* hand-over to the Writer, its reply to main, its wg.Done(), and then the
\* probe send the Spawner is waiting for), on the failure path as on the
\* success path, or waits to hand over to a Writer that is inside Write and
\* can itself take a step; and the Spawner leaves the wait by receiving the signal of
\* one getter, which thereby returns, and taking exactly one off
\* currentRoutines.
C16_GateNeverDeadlocks ==
    /\ [](spc = "probe" =>
            /\ Running
            /\ AtBudget(currentRoutines, maxRoutines)
            /\ LiveGetters # {}
            /\ \A i \in LiveGetters :
                  \/ ENABLED Getter(i)
                  \/ gpc[i] = "post" /\ wpc \in {"create", "fill"} /\ ENABLED Writer)
    /\ [][(spc = "probe" /\ spc' # "probe") =>
            /\ spc' = "recv"
            /\ currentRoutines' = currentRoutines - 1
            /\ Cardinality(ExitedGetters') = Cardinality(ExitedGetters) + 1]_vars

\* the Spawner has resumed on the signal of a getter whose fetch failed
C16_Witness ==
    /\ maxRoutines = 1 /\ launched = 1
    /\ gstatus[1] = Failure /\ gpc[1] = "exited"
    /\ spc = "recv" /\ currentRoutines = 0

\* C17: the Writer leaves its receive loop, and so sends its record, only
\* when the content channel is closed and no getter is still to hand over
\* an item: by then it has taken one item per getter that reported Success
\* and is through with the Write of each, which gave each a file of its
\* own with its content.
C17_SinkDrainsFirst ==
    wpc \in {"report", "close", "done"} =>
        /\ gwClosed
        /\ \A i \in Getters : gpc[i] \notin {"get", "post"}
        /\ received = Cardinality({i \in Getters : gstatus[i] = Success})
        /\ imgData = NoImg /\ file = NoPath
        /\ dirFaults = {"none"} =>
              /\ Cardinality(DOMAIN disk) = received
              /\ \A p \in DOMAIN disk : disk[p] # EmptyFile

\* the Writer has finished after taking the items of two getters
C17_Witness ==
    /\ wpc = "done" /\ nres = 2
    /\ received = 2 /\ Cardinality(DOMAIN disk) = 2

\* C18: no getter sends on the closed content channel.  The WaitGroup
\* counts the Spawner until its own Done and every getter that has not yet
\* called Done, which comes after the getter's send; the channel is closed
\* only at counter zero, when no getter is at or before its send; and no
\* getter fails for any reason but its fetch.
C18_NoPostAfterClose ==
    /\ wg = (IF spc \in {"start", "wait", "close", "report", "done"} THEN 0 ELSE 1)
              + Cardinality(BeforeWgDone)
    /\ spc \in {"close", "report", "done"} => wg = 0
    /\ gwClosed =>
          /\ wg = 0
          /\ launched = nres
          /\ \A i \in Getters : gpc[i] \notin {"get", "post"}
    /\ \A i \in Getters : gstatus[i] = Failure => gres[i] = "netErr"

\* the channel is closed after both getters' sends, one getter still at
\* its probe send
C18_Witness ==
    /\ gwClosed /\ nres = 2 /\ received = 2
    /\ \E i \in Getters : gpc[i] = "probe"

\* C20: for every budget, zero and negative ones included, currentRoutines
\* is the number of getters launched less the signals received, which is
\* the number of live getters, and stays within 0..max(budget, 1).
C20_CounterInRange ==
    /\ currentRoutines = launched - Cardinality(ExitedGetters)
    /\ currentRoutines = Cardinality(LiveGetters)
    /\ currentRoutines \in 0..EffectiveBudget(maxRoutines)
    /\ Cardinality(LiveGetters) <= EffectiveBudget(maxRoutines)

\* a negative budget: the second getter is live and the Spawner waits for
\* its signal, the first having been admitted and signalled before
C20_Witness ==
    /\ maxRoutines = 0 - 1 /\ launched = 2
    /\ currentRoutines = 1 /\ spc = "probe"
    /\ gpc[1] = "exited"

\* C13: once the Writer has sent its record, if any Write returned an error
\* (naming exhausted, create, read or write) that record is the one Writer
\* record and its status is Failure.
C13_WriteErrorReported ==
    (dropped # {} /\ wpc \in {"close", "done"}) =>
        /\ CountLog("Writer", Failure) = 1
        /\ CountLog("Writer", Success) = 0

\* C14: validFilenameMaker(P) returns P when P does not exist; P_k when P
\* and P_0..P_{k-1} exist and P_k does not, for k < 100, the index being
\* put before the extension; and the empty path with an error when P and
\* all of P_0..P_99 exist.
C14_NextFreeName ==
    answer # NoAnswer =>
        /\ askPath \notin DOMAIN disk =>
              answer[1] = [path |-> askPath, err |-> FALSE]
        /\ \A k \in 0..(maxIndices - 1) :
              (/\ askPath \in DOMAIN disk
               /\ \A i \in 0..(k - 1) : Disambiguated(askPath, i) \in DOMAIN disk
               /\ Disambiguated(askPath, k) \notin DOMAIN disk) =>
                  answer[1] = [path |-> Disambiguated(askPath, k), err |-> FALSE]
        /\ (/\ askPath \in DOMAIN disk
            /\ \A i \in 0..(maxIndices - 1) : Disambiguated(askPath, i) \in DOMAIN disk) =>
                  answer[1] = [path |-> NoPath, err |-> TRUE]

====
